---------------------------- MODULE Spec2Model ----------------------------
(***************************************************************************)
(* A model of the slidedeck package: the add workflow (add.py), the        *)
(* document compiler (build.py) and the figure comparison (history.py).    *)
(*                                                                         *)
(* A Python string is a sequence of atoms; an atom is a TLA+ string that   *)
(* the modelled code never splits ("intro", "_", "2", ".png").             *)
(***************************************************************************)
EXTENDS Integers, Sequences, FiniteSets, TLC

VARIABLES
    registry,   \* slides.yaml: the persisted list of slide records
    files,      \* figure files copied under figures/<topic>/
    saves,      \* history: number of save_registry calls so far
    pc,         \* add_figure: each invocation's position
    local,      \* add_figure: each invocation's local variables
    log,        \* history: the adds that returned, in order of return
    planA,      \* two runs: the adds of the first run, in order
    slidesA,    \* two runs: the registry of the first run
    usedB,      \* two runs: the adds of planA the second run has made, in its order
    slidesB,    \* two runs: the registry of the second run
    buildReg,   \* build: the registry build_slides loads
    recentCount,\* build: the --recent-count of the last build
    slidesQmd,  \* build: the lines of slides.qmd
    recentQmd,  \* build: the lines of recent.qmd
    slide,      \* render: the slide record given to _render_slide
    rendered,   \* render: the lines _render_slide appended
    history,    \* compare: what git log and git show answer for the figure
    cpc,        \* compare: generate_comparison's position
    cidx,       \* compare: the loop index i (1-based)
    versions,   \* compare: the versions extracted so far
    tempDir,    \* compare: .figure_history_temp, whether it exists and its files
    artifact,   \* compare: the output file, whether it was written and its text
    runs        \* compare: the invocations that ended

addVars == <<registry, files, saves, pc, local, log>>

pairVars == <<planA, slidesA, usedB, slidesB>>

buildVars == <<buildReg, recentCount, slidesQmd, recentQmd>>

renderVars == <<slide, rendered>>

cmpVars == <<history, cpc, cidx, versions, tempDir, artifact, runs>>

vars == <<registry, files, saves, pc, local, log, planA, slidesA, usedB, slidesB,
          buildReg, recentCount, slidesQmd, recentQmd, slide, rendered,
          history, cpc, cidx, versions, tempDir, artifact, runs>>

-----------------------------------------------------------------------------
(* Bounds *)

MaxAdds == 3

MaxPairAdds == 3

MaxBuildSlides == 3

MaxRevisions == 3

MaxRuns == 2

-----------------------------------------------------------------------------
(* Strings *)

\* x in list
Member(x, s) == \E i \in 1..Len(s) : s[i] = x

\* list.index(x): the first position of x (1-based here)
IndexOf(x, s) == CHOOSE i \in 1..Len(s) : s[i] = x /\ \A j \in 1..(i - 1) : s[j] # x

\* str.replace(from, to) for one-atom patterns
Replace(s, from, to) == [i \in 1..Len(s) |-> IF s[i] = from THEN to ELSE s[i]]

\* the atoms c with c.isalnum()
AlnumAtoms == {"A", "B", "a", "b", "2", "3", "0", "1", "4", "5", "6", "7", "8", "9"}

LowerAtom(c) == CASE c = "A" -> "a" [] c = "B" -> "b" [] OTHER -> c

UpperAtom(c) == CASE c = "a" -> "A" [] c = "b" -> "B" [] OTHER -> c

\* str.lower()
Lower(s) == [i \in 1..Len(s) |-> LowerAtom(s[i])]

\* "".join(c for c in s if keep(c))
RECURSIVE FilterAtoms(_, _)
FilterAtoms(s, keep) ==
    IF s = <<>> THEN <<>>
    ELSE IF Head(s) \in keep THEN <<Head(s)>> \o FilterAtoms(Tail(s), keep)
    ELSE FilterAtoms(Tail(s), keep)

DigitAtom(d) == CASE d = 0 -> "0" [] d = 1 -> "1" [] d = 2 -> "2" [] d = 3 -> "3"
                  [] d = 4 -> "4" [] d = 5 -> "5" [] d = 6 -> "6" [] d = 7 -> "7"
                  [] d = 8 -> "8" [] d = 9 -> "9"

\* str(n) for n >= 0
RECURSIVE Str(_)
Str(n) == IF n < 10 THEN <<DigitAtom(n)>> ELSE Str(n \div 10) \o <<DigitAtom(n % 10)>>

\* str.split(): the maximal runs of non-space atoms
RECURSIVE SplitWords(_, _)
SplitWords(s, word) ==
    IF s = <<>> THEN (IF word = <<>> THEN <<>> ELSE <<word>>)
    ELSE IF Head(s) = " "
         THEN (IF word = <<>> THEN <<>> ELSE <<word>>) \o SplitWords(Tail(s), <<>>)
         ELSE SplitWords(Tail(s), Append(word, Head(s)))

\* str.capitalize()
Capitalize(w) == [i \in 1..Len(w) |-> IF i = 1 THEN UpperAtom(w[i]) ELSE LowerAtom(w[i])]

\* " ".join(words)
RECURSIVE JoinWords(_)
JoinWords(ws) ==
    IF ws = <<>> THEN <<>>
    ELSE IF Len(ws) = 1 THEN ws[1]
    ELSE ws[1] \o <<" ">> \o JoinWords(Tail(ws))

-----------------------------------------------------------------------------
(* add.py *)

NoTopic == <<"<None>">>
NoTitle == <<"<None>">>

\* The topics of the project's slides.yaml; add_figure never changes them.
Topics == << [id |-> <<"intro">>, name |-> <<"Introduction">>, order |-> 1],
             [id |-> <<"results">>, name |-> <<"Results">>, order |-> 2] >>

\* date.today().isoformat() on the days an invocation may run
Dates == {"2024-01-15", "2024-01-16"}

\* valid_topics = {t["id"] for t in registry["topics"]}
ValidTopics == {Topics[i].id : i \in 1..Len(Topics)}

\* infer_topic_from_path: parts = dirs + (file name,)
InferTopic(dirs) ==
    IF Member(<<"figures">>, dirs)
    THEN LET fig_idx == IndexOf(<<"figures">>, dirs)    \* 1-based: fig_idx - 1 in the code
         IN  IF (fig_idx - 1) + 1 < (Len(dirs) + 1) - 1 THEN dirs[fig_idx + 1] ELSE NoTopic
    ELSE NoTopic

\* infer_title_from_filename
InferTitle(stem) ==
    LET words == SplitWords(Replace(Replace(stem, "_", " "), "-", " "), <<>>)
    IN  JoinWords([i \in 1..Len(words) |-> Capitalize(words[i])])

\* generate_slide_id
generate_slide_id(title, created) ==
    LET slug == FilterAtoms(Replace(Lower(title), " ", "_"), AlnumAtoms \cup {"_"})
    IN  <<created>> \o <<"_">> \o slug

\* variant: the counter taken from the number of slides instead of the loop
FreeCounterFromCount(slide_id, existing_ids, counter) == Cardinality(existing_ids) + 1

\* variant: the loop started one too low
FreeCounterFromOne(slide_id, existing_ids, counter) ==
    LET free == {n \in (counter - 1)..(counter + Cardinality(existing_ids)) :
                    (slide_id \o <<"_">> \o Str(n)) \notin existing_ids}
    IN  CHOOSE n \in free : \A m \in free : n <= m

\* the while loop of add_figure: the first counter >= start with slide_id_<counter> free
RECURSIVE FreeCounter(_, _, _)
FreeCounter(slide_id, existing_ids, counter) ==
    IF (slide_id \o <<"_">> \o Str(counter)) \in existing_ids
    THEN FreeCounter(slide_id, existing_ids, counter + 1)
    ELSE counter

\* variant: _2 appended without the loop
UniqueSlideIdNoLoop(slide_id, existing_ids) ==
    IF slide_id \in existing_ids THEN slide_id \o <<"_">> \o Str(2) ELSE slide_id

\* add_figure, "Check for duplicate ID"
UniqueSlideId(slide_id, existing_ids) ==
    IF slide_id \in existing_ids
    THEN slide_id \o <<"_">> \o Str(FreeCounter(slide_id, existing_ids, 2))
    ELSE slide_id

ExistingIds(slides) == {slides[i].id : i \in 1..Len(slides)}

\* topic is None -> infer it from the path
ResolveTopic(input) == IF input.topic = NoTopic THEN InferTopic(input.dirs) ELSE input.topic

\* variant: the unknown-topic test left out
TopicRejectedInferOnly(topic) == topic = NoTopic

\* the two error exits of add_figure: no topic inferred, or an unknown topic
TopicRejected(topic) == topic = NoTopic \/ topic \notin ValidTopics

\* title is None -> infer it from the file name
ResolveTitle(input) == IF input.title = NoTitle THEN InferTitle(input.stem) ELSE input.title

FileName(input) == input.stem \o <<".png">>

\* str(Path("figures") / topic / source_path.name)
DestPath(topic, input) == <<"figures", "/">> \o topic \o <<"/">> \o FileName(input)

\* str(source_path)
RECURSIVE JoinPath(_)
JoinPath(dirs) == IF dirs = <<>> THEN <<>> ELSE dirs[1] \o <<"/">> \o JoinPath(Tail(dirs))

SourcePath(input) == JoinPath(input.dirs) \o FileName(input)

\* figure_rel_path
FigureRelPath(topic, input) ==
    IF input.copy THEN DestPath(topic, input) ELSE SourcePath(input)

\* slide_entry
SlideEntry(slides, topic, title, figure, created) ==
    [id      |-> UniqueSlideId(generate_slide_id(title, created), ExistingIds(slides)),
     topic   |-> topic,
     title   |-> title,
     figure  |-> figure,
     created |-> created]

\* variant: a save that keeps what another invocation saved meanwhile
SaveRegistryMerged(current, data) ==
    IF current = SubSeq(data, 1, Len(data) - 1) THEN data ELSE Append(current, data[Len(data)])

\* save_registry: the file is overwritten with the caller's data
SaveRegistry(current, data) == data

\* The command lines the model runs.
AddInputs ==
    { [dirs |-> << <<"figures">>, <<"intro">> >>, stem |-> <<"a">>,
       topic |-> NoTopic, title |-> NoTitle, copy |-> FALSE],
      [dirs |-> <<>>, stem |-> <<"a", "_", "2">>,
       topic |-> <<"results">>, title |-> NoTitle, copy |-> TRUE],
      [dirs |-> <<>>, stem |-> <<"b">>,
       topic |-> <<"intro">>, title |-> <<"a", "!">>, copy |-> FALSE],
      [dirs |-> << <<"figures">> >>, stem |-> <<"b">>,
       topic |-> NoTopic, title |-> NoTitle, copy |-> TRUE],
      [dirs |-> << <<"figures">>, <<"misc">> >>, stem |-> <<"b">>,
       topic |-> NoTopic, title |-> NoTitle, copy |-> FALSE],
      [dirs |-> <<>>, stem |-> <<"a">>,
       topic |-> <<"misc">>, title |-> NoTitle, copy |-> TRUE] }

Procs == {1, 2}

NoInput == [dirs |-> <<>>, stem |-> <<>>, topic |-> NoTopic, title |-> NoTitle, copy |-> FALSE]

NoSlide == [id |-> <<>>, topic |-> NoTopic, title |-> NoTitle, figure |-> <<>>, created |-> ""]

IdleLocal ==
    [input |-> NoInput, registry |-> <<>>, topic |-> NoTopic, title |-> NoTitle,
     figure |-> <<>>, entry |-> NoSlide, version |-> 0, wrote |-> FALSE]

AddInit ==
    /\ registry = <<>>
    /\ files = {}
    /\ saves = 0
    /\ pc = [p \in Procs |-> "idle"]
    /\ local = [p \in Procs |-> IdleLocal]
    /\ log = <<>>

Started == Len(log) + Cardinality({p \in Procs : pc[p] # "idle"})

\* add_figure, line 59: registry = load_registry()
Load(p, input) ==
    /\ pc[p] = "idle"
    /\ Started < MaxAdds
    /\ local' = [local EXCEPT ![p] = [IdleLocal EXCEPT !.input = input,
                                                       !.registry = registry,
                                                       !.version = saves]]
    /\ pc' = [pc EXCEPT ![p] = "validate"]
    /\ UNCHANGED <<registry, files, saves, log, pairVars, buildVars, renderVars, cmpVars>>

\* add_figure, lines 61-80: infer and validate the topic, infer the title
Validate(p) ==
    /\ pc[p] = "validate"
    /\ LET topic == ResolveTopic(local[p].input)
       IN  IF TopicRejected(topic)
           THEN /\ pc' = [pc EXCEPT ![p] = "error"]
                /\ local' = [local EXCEPT ![p].topic = topic]
           ELSE /\ pc' = [pc EXCEPT ![p] = "copy"]
                /\ local' = [local EXCEPT ![p].topic = topic,
                                          ![p].title = ResolveTitle(local[p].input)]
    /\ UNCHANGED <<registry, files, saves, log, pairVars, buildVars, renderVars, cmpVars>>

\* add_figure, lines 82-91: copy the figure under figures/<topic>/
Copy(p) ==
    /\ pc[p] = "copy"
    /\ IF local[p].input.copy
       THEN /\ files' = files \cup {DestPath(local[p].topic, local[p].input)}
            /\ local' = [local EXCEPT ![p].figure = FigureRelPath(local[p].topic, local[p].input),
                                      ![p].wrote = TRUE]
       ELSE /\ files' = files
            /\ local' = [local EXCEPT ![p].figure = FigureRelPath(local[p].topic, local[p].input)]
    /\ pc' = [pc EXCEPT ![p] = "save"]
    /\ UNCHANGED <<registry, saves, log, pairVars, buildVars, renderVars, cmpVars>>

\* add_figure, lines 93-123: allocate the id, append the entry, save_registry
Save(p, created) ==
    /\ pc[p] = "save"
    /\ LET entry == SlideEntry(local[p].registry, local[p].topic, local[p].title,
                               local[p].figure, created)
           data  == Append(local[p].registry, entry)
       IN  /\ registry' = SaveRegistry(registry, data)
           /\ local' = [local EXCEPT ![p].registry = data, ![p].entry = entry,
                                     ![p].wrote = TRUE]
    /\ saves' = saves + 1
    /\ pc' = [pc EXCEPT ![p] = "done"]
    /\ UNCHANGED <<files, log, pairVars, buildVars, renderVars, cmpVars>>

\* the invocation's process ends: add_figure returned, or SystemExit(1)
Exit(p) ==
    /\ pc[p] \in {"done", "error"}
    /\ log' = Append(log, [ok |-> pc[p] = "done", title |-> local[p].title,
                           entry |-> local[p].entry])
    /\ pc' = [pc EXCEPT ![p] = "idle"]
    /\ local' = [local EXCEPT ![p] = IdleLocal]
    /\ UNCHANGED <<registry, files, saves, pairVars, buildVars, renderVars, cmpVars>>

AddStep(p) ==
    \/ \E input \in AddInputs : Load(p, input)
    \/ Validate(p)
    \/ Copy(p)
    \/ \E created \in Dates : Save(p, created)
    \/ Exit(p)

\* Invocations run as separate processes with nothing to serialise them.
Next == \E p \in Procs : AddStep(p)

\* One invocation at a time: a user running the command again and again.
NextSeq == \E p \in Procs : (\A q \in Procs \ {p} : pc[q] = "idle") /\ AddStep(p)

-----------------------------------------------------------------------------
(* Two runs of the same adds in different orders *)

\* add_figure run from start to end with nothing in between: the registry it leaves
AddFigure(slides, input, created) ==
    LET topic == ResolveTopic(input)
    IN  IF TopicRejected(topic) THEN slides
        ELSE Append(slides, SlideEntry(slides, topic, ResolveTitle(input),
                                       FigureRelPath(topic, input), created))

\* the command lines of the two runs: those that pass validation, and one more title
PairInputs ==
    {input \in AddInputs : ~TopicRejected(ResolveTopic(input))}
    \cup { [dirs |-> << <<"figures">>, <<"results">> >>, stem |-> <<"b">>,
            topic |-> NoTopic, title |-> NoTitle, copy |-> FALSE] }

KeyOf(add) == <<ResolveTitle(add.input), add.created>>

\* the first run makes one more add
PairAddA(input, created) ==
    /\ usedB = <<>>
    /\ Len(planA) < MaxPairAdds
    /\ planA' = Append(planA, [input |-> input, created |-> created])
    /\ slidesA' = AddFigure(slidesA, input, created)
    /\ UNCHANGED <<usedB, slidesB, addVars, buildVars, renderVars, cmpVars>>

\* the second run makes one of the first run's adds it has not made yet; adds of one
\* title and date keep their relative order
PairAddB(k) ==
    /\ k \in 1..Len(planA)
    /\ ~Member(k, usedB)
    /\ \A j \in 1..(k - 1) : KeyOf(planA[j]) = KeyOf(planA[k]) => Member(j, usedB)
    /\ usedB' = Append(usedB, k)
    /\ slidesB' = AddFigure(slidesB, planA[k].input, planA[k].created)
    /\ UNCHANGED <<planA, slidesA, addVars, buildVars, renderVars, cmpVars>>

NextPair ==
    \/ \E input \in PairInputs, created \in Dates : PairAddA(input, created)
    \/ \E k \in 1..MaxPairAdds : PairAddB(k)

-----------------------------------------------------------------------------
(* build.py *)

\* the atoms str.rstrip() strips
WhitespaceAtoms == {" ", "\t", "\n"}

\* str.rstrip()
RECURSIVE Rstrip(_)
Rstrip(s) ==
    IF s # <<>> /\ s[Len(s)] \in WhitespaceAtoms THEN Rstrip(SubSeq(s, 1, Len(s) - 1)) ELSE s

\* _render_slide: the lines it appends; a key the record lacks reads as ""
RenderSlide(s) ==
    LET caption == IF s.caption # <<>> THEN s.caption ELSE s.description
    IN  (IF s.figure # <<>>
         THEN << <<"![](">> \o s.figure \o <<")">>, <<>> >>
              \o (IF caption # <<>>
                  THEN << <<"::: {.caption}">>, Rstrip(caption), <<":::">>, <<>> >>
                  ELSE <<>>)
         ELSE <<>>)
        \o (IF s.content # <<>> THEN << Rstrip(s.content), <<>> >> ELSE <<>>)
        \o (IF s.notes # <<>> THEN << <<"::: {.notes}">>, s.notes, <<":::">>, <<>> >> ELSE <<>>)

\* the keys are ISO dates compared as strings: their order is the calendar's
DateRank(d) ==
    CASE d = "2024-01-01" -> 1 [] d = "2024-02-01" -> 2 [] d = "2024-03-01" -> 3

\* list.sort / sorted, ascending: the positions 1..n of keys in sorted order; equal
\* keys keep their order (the sort is stable)
RECURSIVE SortedPositions(_, _)
SortedPositions(keys, n) ==
    IF n = 0 THEN <<>>
    ELSE LET done == SortedPositions(keys, n - 1)
             pos  == Cardinality({j \in 1..Len(done) : keys[done[j]] <= keys[n]})
         IN  SubSeq(done, 1, pos) \o <<n>> \o SubSeq(done, pos + 1, Len(done))

SortedAscending(items, keys) ==
    LET order == SortedPositions(keys, Len(items)) IN [i \in 1..Len(items) |-> items[order[i]]]

\* reverse=True: descending, and equal keys still keep their order
SortedDescending(items, keys) ==
    SortedAscending(items, [i \in 1..Len(keys) |-> 0 - keys[i]])

Reversed(s) == [i \in 1..Len(s) |-> s[Len(s) + 1 - i]]

\* variant: sorted ascending and then reversed, which reverses equal dates too
NewestFirstTiesReversed(slides) ==
    Reversed(SortedAscending(slides, [i \in 1..Len(slides) |-> DateRank(slides[i].created)]))

\* key=lambda s: s["created"], reverse=True
NewestFirst(slides) ==
    SortedDescending(slides, [i \in 1..Len(slides) |-> DateRank(slides[i].created)])

SentinelOrder == 999

\* topic_order.get(x, 999); a dict built from a list keeps the last entry of an id
TopicOrder(topics, topic_id) ==
    LET hits == {i \in 1..Len(topics) : topics[i].id = topic_id}
    IN  IF hits = {} THEN SentinelOrder
        ELSE topics[CHOOSE i \in hits : \A j \in hits : j <= i].order

TitleAtom(c) == CASE c = "side" -> "Side" [] c = "notes" -> "Notes" [] c = "intro" -> "Intro"
                  [] c = "my" -> "My" [] c = "results" -> "Results" [] OTHER -> c

\* str.title()
TitleCase(s) == [i \in 1..Len(s) |-> TitleAtom(s[i])]

\* topics.get(topic_id, {"name": topic_id.replace("_", " ").title()})["name"]
TopicName(topics, topic_id) ==
    LET hits == {i \in 1..Len(topics) : topics[i].id = topic_id}
    IN  IF hits = {} THEN TitleCase(Replace(topic_id, "_", " "))
        ELSE topics[CHOOSE i \in hits : \A j \in hits : j <= i].name

\* the keys of slides_by_topic, in the order the loop first meets them
RECURSIVE TopicKeys(_)
TopicKeys(slides) ==
    IF slides = <<>> THEN <<>>
    ELSE LET before == TopicKeys(SubSeq(slides, 1, Len(slides) - 1))
             t      == slides[Len(slides)].topic
         IN  IF Member(t, before) THEN before ELSE Append(before, t)

\* slides_by_topic[topic_id]
SlidesOfTopic(slides, topic_id) == SelectSeq(slides, LAMBDA e : e.topic = topic_id)

\* sorted(slides_by_topic.keys(), key=lambda x: topic_order.get(x, 999))
SortedTopicIds(reg) ==
    LET keys == TopicKeys(reg.slides)
    IN  SortedAscending(keys, [i \in 1..Len(keys) |-> TopicOrder(reg.topics, keys[i])])

RECURSIVE Flatten(_)
Flatten(ss) == IF ss = <<>> THEN <<>> ELSE Head(ss) \o Flatten(Tail(ss))

\* the lines of one slide of the deck
DeckSlideLines(s) ==
    << <<"## ">> \o s.title \o <<" {#">> \o s.id \o <<"}">>, <<>> >> \o RenderSlide(s)

\* the lines of one topic of the deck
DeckTopicLines(reg, topic_id) ==
    LET topic_slides == NewestFirst(SlidesOfTopic(reg.slides, topic_id))
    IN  << <<"# ">> \o TopicName(reg.topics, topic_id) \o <<" {#">>
               \o Replace(topic_id, "_", "-") \o <<"}">>, <<>> >>
        \o Flatten([i \in 1..Len(topic_slides) |-> DeckSlideLines(topic_slides[i])])

DeckHeader(reg) ==
    << <<"---">>, <<"title: \"">> \o reg.title \o <<"\"">>, <<"format:">>, <<"  revealjs:">>,
       <<"    theme: default">>, <<"    slide-number: true">>,
       <<"    fig-cap-location: bottom">>, <<"    margin: 0.05">>,
       <<"    scrollable: true">>, <<"css: styles.css">>, <<"---">>, <<>> >>

\* build_slides_qmd: the lines it joins
build_slides_qmd(reg) ==
    IF reg.slides = <<>>
    THEN DeckHeader(reg) \o << <<"# Welcome">>, <<>>, <<"No figures added yet.">>, <<>>,
                               <<"Run slidedeck add to add your first figure.">> >>
    ELSE LET sorted_topic_ids == SortedTopicIds(reg)
         IN  DeckHeader(reg)
             \o Flatten([i \in 1..Len(sorted_topic_ids) |-> DeckTopicLines(reg, sorted_topic_ids[i])])

RecentHeader ==
    << <<"---">>, <<"title: \"Recent Figures\"">>, <<"format:">>, <<"  revealjs:">>,
       <<"    theme: default">>, <<"    slide-number: true">>,
       <<"    fig-cap-location: bottom">>, <<"css: styles.css">>, <<"---">>, <<>> >>

\* s[:count]
SliceTo(s, count) ==
    IF count >= 0 THEN SubSeq(s, 1, IF count < Len(s) THEN count ELSE Len(s))
    ELSE SubSeq(s, 1, IF Len(s) + count > 0 THEN Len(s) + count ELSE 0)

\* build_recent_qmd: the lines it joins
build_recent_qmd(reg, count) ==
    IF reg.slides = <<>>
    THEN RecentHeader \o << <<"# Recent Figures">>, <<>>, <<"No figures added yet.">>, <<>>,
                            <<"Run slidedeck add to add your first figure.">> >>
    ELSE LET recent_slides == SliceTo(NewestFirst(reg.slides), count)
         IN  RecentHeader
             \o Flatten([i \in 1..Len(recent_slides) |->
                            << <<"## ">> \o recent_slides[i].title, <<>> >>
                            \o RenderSlide(recent_slides[i])])

\* The registries the model builds from: the k-th slide is s<k>, titled T<k>.
BuildTopicTables ==
    { << [id |-> <<"intro">>, name |-> <<"Introduction">>, order |-> o[1]],
         [id |-> <<"my", "_", "results">>, name |-> <<"Results">>, order |-> o[2]] >> :
      o \in {<<1, 2>>, <<1000, 2>>, <<999, 1>>} }

BuildTopicIds == {<<"intro">>, <<"my", "_", "results">>, <<"side", "_", "notes">>}

BuildDates == {"2024-01-01", "2024-02-01", "2024-03-01"}

BuildSlide(k, topic, created) ==
    [id |-> <<"s", DigitAtom(k)>>, topic |-> topic, title |-> <<"T", DigitAtom(k)>>,
     caption |-> <<"cap">>, description |-> <<>>, content |-> <<>>, notes |-> <<>>,
     figure |-> <<"f.png">>, created |-> created]

BuildSlideLists ==
    UNION { { [k \in 1..n |-> BuildSlide(k, tc[k][1], tc[k][2])] :
                tc \in [1..n -> BuildTopicIds \X BuildDates] } : n \in 0..MaxBuildSlides }

RecentCounts == {0 - 1, 0, 2, MaxBuildSlides + 1}

BuildIdle ==
    /\ buildReg = [title |-> <<"Research Figures">>, topics |-> <<>>, slides |-> <<>>]
    /\ recentCount = 10
    /\ slidesQmd = <<>>
    /\ recentQmd = <<>>

BuildInit ==
    /\ buildReg \in { [title |-> <<"Research Figures">>, topics |-> t, slides |-> sl] :
                        t \in BuildTopicTables, sl \in BuildSlideLists }
    /\ recentCount = 10
    /\ slidesQmd = <<>>
    /\ recentQmd = <<>>

\* build_slides: load the registry, write slides.qmd and recent.qmd
BuildSlides(recent_count) ==
    /\ slidesQmd' = build_slides_qmd(buildReg)
    /\ recentQmd' = build_recent_qmd(buildReg, recent_count)
    /\ recentCount' = recent_count
    /\ UNCHANGED <<buildReg, addVars, pairVars, renderVars, cmpVars>>

NextBuild == \E recent_count \in RecentCounts : BuildSlides(recent_count)

\* The slide records the model renders.
FieldValues == {<<>>, <<" ">>, <<"x">>, <<"x", " ">>}

RenderSlides ==
    [figure : {<<>>, <<"f.png">>}, caption : FieldValues, description : FieldValues,
     content : FieldValues, notes : FieldValues]

RenderIdle ==
    /\ slide = [figure |-> <<>>, caption |-> <<>>, description |-> <<>>,
                content |-> <<>>, notes |-> <<>>]
    /\ rendered = <<"none">>

RenderInit ==
    /\ slide \in RenderSlides
    /\ rendered = <<"none">>

\* _render_slide(slide, lines) on an empty list of lines
Render ==
    /\ rendered = <<"none">>
    /\ rendered' = <<"lines", RenderSlide(slide)>>
    /\ UNCHANGED <<slide, addVars, pairVars, buildVars, cmpVars>>

NextRender == Render

-----------------------------------------------------------------------------
(* history.py *)

Hash8(k) == CASE k = 1 -> "1a1a1a1a" [] k = 2 -> "2b2b2b2b" [] k = 3 -> "3c3c3c3c"
              [] OTHER -> "4d4d4d4d"

\* The k-th line of git log: the first atom of a commit is its first 8 characters.
\* blob tells whether git show <commit>:<path> succeeds.
Revision(k, blob) ==
    [commit |-> <<Hash8(k), "0123456789abcdef0123456789abcdef">>,
     date |-> <<"2024-01-0", DigitAtom(k), " 10:00:00 +0000">>,
     message |-> <<"update ", DigitAtom(k)>>,
     blob |-> blob]

\* get_figure_history: the answers of git the model runs against
Histories ==
    UNION { { [k \in 1..n |-> Revision(k, b[k])] : b \in [1..n -> BOOLEAN] } :
              n \in 0..MaxRevisions }

FigurePath == <<"figures/intro/a.png">>

\* entry["commit"][:8]
Short(commit) == SubSeq(commit, 1, 1)

\* temp_dir / ("v" + str(i + 1) + "_" + entry["commit"][:8] + ".png")
VersionPath(i, entry) == <<"v">> \o Str(i) \o <<"_">> \o Short(entry.commit) \o <<".png">>

\* base64.b64encode(f.read()).decode() of the bytes git show printed
ImageData(entry) == <<"b64(">> \o entry.commit \o <<")">>

\* the dict appended to versions
Version(i, entry) ==
    [index |-> i, commit |-> Short(entry.commit), date |-> entry.date,
     message |-> entry.message, data |-> ImageData(entry)]

\* one card of generate_comparison_html
VersionCard(v) ==
    <<"<div class=\"version-card\">", "<h3>Version ">> \o Str(v.index)
    \o <<"</h3>", "<span class=\"commit\">">> \o v.commit
    \o <<"</span>", "<span class=\"date\">">> \o v.date
    \o <<"</span>", "<p class=\"message\">">> \o v.message
    \o <<"</p>", "<img src=\"data:image/png;base64,">> \o v.data
    \o <<"\" alt=\"Version ">> \o Str(v.index) \o <<"\">", "</div>">>

\* variant: the cards joined newest last
generate_comparison_html_reversed(figure_path, vs) ==
    <<"<title>Figure History: ">> \o figure_path \o <<"</title>", "<style>", "</style>",
      "<h1>Figure History: ">> \o figure_path \o <<"</h1>", "<p>">> \o Str(Len(vs))
    \o <<" versions found (newest first)</p>", "<div class=\"versions\">">>
    \o Flatten([i \in 1..Len(vs) |-> VersionCard(vs[Len(vs) + 1 - i])])
    \o <<"</div>", "</html>">>

\* generate_comparison_html
generate_comparison_html(figure_path, vs) ==
    <<"<title>Figure History: ">> \o figure_path \o <<"</title>", "<style>", "</style>",
      "<h1>Figure History: ">> \o figure_path \o <<"</h1>", "<p>">> \o Str(Len(vs))
    \o <<" versions found (newest first)</p>", "<div class=\"versions\">">>
    \o Flatten([i \in 1..Len(vs) |-> VersionCard(vs[i])])
    \o <<"</div>", "</html>">>

NoDir == [exists |-> FALSE, files |-> {}]

CmpIdle ==
    /\ history = <<>>
    /\ cpc = "idle"
    /\ cidx = 0
    /\ versions = <<>>
    /\ tempDir = NoDir
    /\ artifact = [written |-> FALSE, text |-> <<>>]
    /\ runs = 0

CmpInit ==
    /\ history \in Histories
    /\ cpc = "idle"
    /\ cidx = 0
    /\ versions = <<>>
    /\ tempDir = NoDir
    /\ artifact = [written |-> FALSE, text |-> <<>>]
    /\ runs = 0

\* generate_comparison, lines 79-91: read the history, return on fewer than two
\* revisions, else make the temporary directory
CmpStart ==
    /\ cpc = "idle"
    /\ runs < MaxRuns
    /\ IF Len(history) < 2
       THEN /\ cpc' = "returned"
            /\ UNCHANGED <<tempDir, cidx, versions>>
       ELSE /\ cpc' = "extract"
            /\ tempDir' = [tempDir EXCEPT !.exists = TRUE]
            /\ cidx' = 1
            /\ versions' = <<>>
    /\ UNCHANGED <<history, artifact, runs, addVars, pairVars, buildVars, renderVars>>

\* generate_comparison, lines 95-107, one turn of the loop: extract_figure_version
\* returns False when git show fails; write_bytes may raise, which nothing catches
CmpExtract(write_ok) ==
    /\ cpc = "extract"
    /\ cidx <= Len(history)
    /\ IF ~history[cidx].blob
       THEN /\ cidx' = cidx + 1
            /\ UNCHANGED <<cpc, tempDir, versions>>
       ELSE IF write_ok
       THEN /\ tempDir' = [tempDir EXCEPT !.files = @ \cup {VersionPath(cidx, history[cidx])}]
            /\ versions' = Append(versions, Version(cidx, history[cidx]))
            /\ cidx' = cidx + 1
            /\ UNCHANGED cpc
       ELSE /\ cpc' = "raised"
            /\ UNCHANGED <<cidx, tempDir, versions>>
    /\ UNCHANGED <<history, artifact, runs, addVars, pairVars, buildVars, renderVars>>

\* generate_comparison, lines 109-111: write the page; write_text may raise
CmpWrite(write_ok) ==
    /\ cpc = "extract"
    /\ cidx > Len(history)
    /\ IF write_ok
       THEN /\ artifact' = [written |-> TRUE,
                            text |-> generate_comparison_html(FigurePath, versions)]
            /\ cpc' = "cleanup"
       ELSE /\ cpc' = "raised"
            /\ UNCHANGED artifact
    /\ UNCHANGED <<history, cidx, versions, tempDir, runs, addVars, pairVars, buildVars,
                   renderVars>>

\* generate_comparison, lines 113-119: unlink every file, remove the directory
CmpCleanup ==
    /\ cpc = "cleanup"
    /\ tempDir' = NoDir
    /\ cpc' = "returned"
    /\ UNCHANGED <<history, cidx, versions, artifact, runs, addVars, pairVars, buildVars,
                   renderVars>>

\* the process ends; the command may be run again
CmpExit ==
    /\ cpc \in {"returned", "raised"}
    /\ cpc' = "idle"
    /\ runs' = runs + 1
    /\ cidx' = 0
    /\ versions' = <<>>
    /\ UNCHANGED <<history, tempDir, artifact, addVars, pairVars, buildVars, renderVars>>

NextCompare ==
    \/ CmpStart
    \/ \E write_ok \in BOOLEAN : CmpExtract(write_ok)
    \/ \E write_ok \in BOOLEAN : CmpWrite(write_ok)
    \/ CmpCleanup
    \/ CmpExit

-----------------------------------------------------------------------------
(* Specifications *)

PairIdle ==
    /\ planA = <<>>
    /\ slidesA = <<>>
    /\ usedB = <<>>
    /\ slidesB = <<>>

\* The add workflow: invocations of add_figure on a project with no slides yet.
Init == AddInit /\ PairIdle /\ BuildIdle /\ RenderIdle /\ CmpIdle

Spec == Init /\ [][Next]_vars

SpecSeq == Init /\ [][NextSeq]_vars

SpecPair == Init /\ [][NextPair]_vars

\* build_slides on a registry file of any content
InitBuild == AddInit /\ PairIdle /\ BuildInit /\ RenderIdle /\ CmpIdle

SpecBuild == InitBuild /\ [][NextBuild]_vars

\* _render_slide on a slide record of any content
InitRender == AddInit /\ PairIdle /\ BuildIdle /\ RenderInit /\ CmpIdle

SpecRender == InitRender /\ [][NextRender]_vars

\* generate_comparison on a figure of any history
InitCompare == AddInit /\ PairIdle /\ BuildIdle /\ RenderIdle /\ CmpInit

SpecCompare == InitCompare /\ [][NextCompare]_vars

-----------------------------------------------------------------------------
(* Claims about add_figure *)

\* the ids add_figure can give a slide whose generated id is base
Suffixed(base, n) == base \o <<"_">> \o Str(n)

MaxSuffix == MaxAdds + MaxPairAdds

Family(base) == {base} \cup {Suffixed(base, n) : n \in 2..MaxSuffix}

\* 1 for the bare id, n for base_n, 0 for an id outside the family
SuffixOf(id, base) ==
    IF id = base THEN 1
    ELSE IF \E n \in 2..MaxSuffix : id = Suffixed(base, n)
         THEN CHOOSE n \in 2..MaxSuffix : id = Suffixed(base, n)
         ELSE 0

\* the (title, created) pairs of the adds that returned normally
LoggedKeys == {<<log[i].title, log[i].entry.created>> : i \in {j \in 1..Len(log) : log[j].ok}}

\* the ids given to the adds of one title and date, in order
LoggedIds(key) ==
    LET hits == SelectSeq(log, LAMBDA e : e.ok /\ e.title = key[1] /\ e.entry.created = key[2])
    IN  [i \in 1..Len(hits) |-> hits[i].entry.id]

\* no slide of another title or date holds an id of the family of base
Undisturbed(key, slides) ==
    \A i \in 1..Len(slides) :
        slides[i].id \in Family(generate_slide_id(key[1], key[2]))
            => slides[i].title = key[1] /\ slides[i].created = key[2]

\* C1: every slide id in the persisted registry is unique, after any sequence of
\* add_figure operations (concurrent invocations included).
C1_UniqueIds ==
    \A i, j \in 1..Len(registry) : i # j => registry[i].id # registry[j].id

\* C1 witness: a title whose slug ends in a numeric suffix ("A 2") met an id taken
\* by the second add of "A" and was given a further suffix.
C1_Witness ==
    \E i \in 1..Len(registry) :
        /\ registry[i].title = <<"A", " ", "2">>
        /\ registry[i].id = Suffixed(generate_slide_id(registry[i].title, registry[i].created), 2)

\* C2 as stated: of the adds with one title and date, the first gets the bare id, the
\* second the suffix _2, each further one a suffix greater than the one before.
C2_FirstBareThenTwo ==
    \A key \in LoggedKeys :
        LET ids  == LoggedIds(key)
            base == generate_slide_id(key[1], key[2])
        IN  /\ ids[1] = base
            /\ Len(ids) >= 2 => ids[2] = Suffixed(base, 2)
            /\ \A k \in 2..(Len(ids) - 1) :
                   /\ SuffixOf(ids[k], base) >= 2
                   /\ SuffixOf(ids[k + 1], base) > SuffixOf(ids[k], base)

\* C2 amended: the adds with one title and date get the bare id or a suffix >= 2,
\* each suffix greater than the one before; the k-th gets the bare id (k = 1) or _k
\* when no slide other than these adds holds an id of that family.
C2_IncreasingSuffix ==
    \A key \in LoggedKeys :
        LET ids  == LoggedIds(key)
            base == generate_slide_id(key[1], key[2])
        IN  /\ \A k \in 1..Len(ids) : SuffixOf(ids[k], base) >= 1
            /\ \A k \in 1..(Len(ids) - 1) :
                   SuffixOf(ids[k + 1], base) > SuffixOf(ids[k], base)
            /\ Undisturbed(key, registry) =>
                   \A k \in 1..Len(ids) : SuffixOf(ids[k], base) = k

\* C2 witness: three adds of one title and date, given the bare id, _2 and _3.
C2_Witness ==
    \E key \in LoggedKeys :
        /\ Undisturbed(key, registry)
        /\ Len(LoggedIds(key)) >= 3
        /\ LoggedIds(key)[3] = Suffixed(generate_slide_id(key[1], key[2]), 3)

\* the ids of the slides of one title and date, in registry order
IdsOf(key, slides) ==
    LET hits == SelectSeq(slides, LAMBDA e : e.title = key[1] /\ e.created = key[2])
    IN  [i \in 1..Len(hits) |-> hits[i].id]

PairKeys == {KeyOf(planA[i]) : i \in 1..Len(planA)}

\* both runs have made the same adds
PairDone == Len(usedB) = Len(planA)

\* the ids add_figure can give the adds of key and those of other are disjoint
Unrelated(key, other) ==
    Family(generate_slide_id(key[1], key[2])) \cap Family(generate_slide_id(other[1], other[2])) = {}

\* C3 as stated: two runs that make the same adds, those of one title and date in
\* the same relative order, give each add of that title and date the same id.
C3_OrderIndependent ==
    PairDone => \A key \in PairKeys : IdsOf(key, slidesA) = IdsOf(key, slidesB)

\* C3 amended: the same, for a title and date whose base id and suffixed forms are
\* not the base id or a suffixed form of any other slide added.
C3_OrderIndependentUnrelated ==
    PairDone =>
        \A key \in PairKeys :
            (\A other \in PairKeys \ {key} : Unrelated(key, other))
                => IdsOf(key, slidesA) = IdsOf(key, slidesB)

\* C3 witness: the second run made the adds in another order, a title was added
\* twice with an unrelated slide among them, and got the same ids in both runs.
C3_Witness ==
    /\ PairDone
    /\ \E i \in 1..Len(usedB) : usedB[i] # i
    /\ \E key \in PairKeys :
          /\ \A other \in PairKeys \ {key} : Unrelated(key, other)
          /\ PairKeys # {key}
          /\ Len(IdsOf(key, slidesA)) >= 2
          /\ IdsOf(key, slidesA) = IdsOf(key, slidesB)

\* C4: an invocation whose topic is missing or unknown never gets past validation,
\* and one that ended in the error exit has copied no file and saved no registry.
C4_RejectBeforeWrite ==
    \A p \in Procs :
        /\ pc[p] \in {"copy", "save", "done"} => local[p].topic \in ValidTopics
        /\ pc[p] = "error" =>
               /\ ~local[p].wrote
               /\ local[p].entry = NoSlide
               /\ local[p].version = saves => registry = local[p].registry

\* C4 witness: an invocation asked to copy the figure ended in the error exit while
\* the registry it loaded is still the persisted one.
C4_Witness ==
    \E p \in Procs :
        /\ pc[p] = "error"
        /\ local[p].input.copy
        /\ local[p].version = saves
        /\ Len(registry) > 0

\* C5: when two invocations both loaded the registry before either saved and both
\* returned normally, the persisted registry is the loaded one plus one slide only.
C5_LostUpdate ==
    \A p, q \in Procs :
        (p # q /\ pc[p] = "done" /\ pc[q] = "done" /\ local[p].version = local[q].version)
            => /\ Len(registry) = Len(local[p].registry)
               /\ registry \in {local[p].registry, local[q].registry}
               /\ SubSeq(registry, 1, Len(registry) - 1)
                      = SubSeq(local[p].registry, 1, Len(local[p].registry) - 1)

\* C5 witness: both invocations returned normally and the slide of one of them is
\* not in the persisted registry.
C5_Witness ==
    \E p, q \in Procs :
        /\ p # q /\ pc[p] = "done" /\ pc[q] = "done"
        /\ local[p].version = local[q].version
        /\ local[p].entry # local[q].entry
        /\ ~Member(local[p].entry, registry)
        /\ Member(local[q].entry, registry)

-----------------------------------------------------------------------------
(* Claims about the documents build_slides writes *)

IsH1(line) == line # <<>> /\ line[1] = "# "

IsH2(line) == line # <<>> /\ line[1] = "## "

\* the headings of a document, in order
Headings(lines) == SelectSeq(lines, LAMBDA l : IsH1(l) \/ IsH2(l))

\* the anchor of a heading "... {#anchor}"
AnchorOf(line) == SubSeq(line, IndexOf(" {#", line) + 1, Len(line) - 1)

PresentTopics == {buildReg.slides[i].topic : i \in 1..Len(buildReg.slides)}

\* the topic a section heading of the deck stands for
TopicOfHeading(line) == CHOOSE t \in PresentTopics : Replace(t, "_", "-") = AnchorOf(line)

\* the position in the registry of the slide a slide heading of the deck stands for
SlideOfHeading(line) ==
    CHOOSE k \in 1..Len(buildReg.slides) : buildReg.slides[k].id = AnchorOf(line)

\* the topic ids of the deck's sections, in order
DeckSections ==
    LET hs == SelectSeq(slidesQmd, IsH1) IN [i \in 1..Len(hs) |-> TopicOfHeading(hs[i])]

Declared(topic_id) == \E i \in 1..Len(buildReg.topics) : buildReg.topics[i].id = topic_id

DeclaredOrder(topic_id) ==
    buildReg.topics[CHOOSE i \in 1..Len(buildReg.topics) : buildReg.topics[i].id = topic_id].order

DeckBuilt == slidesQmd # <<>> /\ buildReg.slides # <<>>

SectionsInOrder ==
    /\ Len(DeckSections) = Cardinality(PresentTopics)
    /\ {DeckSections[i] : i \in 1..Len(DeckSections)} = PresentTopics
    /\ \A i, j \in 1..Len(DeckSections) :
          i < j =>
             /\ (Declared(DeckSections[i]) /\ Declared(DeckSections[j]))
                   => DeclaredOrder(DeckSections[i]) <= DeclaredOrder(DeckSections[j])
             /\ ~Declared(DeckSections[i]) => ~Declared(DeckSections[j])

\* C6: the sections of the deck are the topics that have a slide, in ascending
\* declared order, and a section of an undeclared topic comes after every section
\* of a declared one, whatever the declared orders are.
C6_SectionsByOrder == DeckBuilt => SectionsInOrder

\* C6 within the sentinel: the same when every declared order is below 999.
C6_SectionsByOrderBelowSentinel ==
    (DeckBuilt /\ \A i \in 1..Len(buildReg.topics) : buildReg.topics[i].order < SentinelOrder)
        => SectionsInOrder

\* slide a is to be emitted before slide b (positions in the registry): it is newer,
\* or as old and earlier in the registry
Precedes(a, b) ==
    LET ra == DateRank(buildReg.slides[a].created)
        rb == DateRank(buildReg.slides[b].created)
    IN  ra > rb \/ (ra = rb /\ a < b)

\* C7: every slide is emitted once, in the section of its topic, and in each section
\* a slide is followed by an older one, or by one of the same date that comes later
\* in the registry.
C7_NewestFirstStable ==
    DeckBuilt =>
        LET hs == Headings(slidesQmd)
        IN  /\ Len(SelectSeq(hs, IsH2)) = Len(buildReg.slides)
            /\ \A k \in 1..Len(buildReg.slides) :
                  \E i \in 1..Len(hs) : IsH2(hs[i]) /\ SlideOfHeading(hs[i]) = k
            /\ IsH1(hs[1])
            /\ \A i \in 2..Len(hs) :
                  IsH2(hs[i]) =>
                     IF IsH1(hs[i - 1])
                     THEN buildReg.slides[SlideOfHeading(hs[i])].topic = TopicOfHeading(hs[i - 1])
                     ELSE /\ buildReg.slides[SlideOfHeading(hs[i])].topic
                                = buildReg.slides[SlideOfHeading(hs[i - 1])].topic
                          /\ Precedes(SlideOfHeading(hs[i - 1]), SlideOfHeading(hs[i]))

\* C7 witness: three slides of one topic, dated 2024-01-01, 2024-03-01, 2024-03-01 in
\* the registry, are emitted second, third, first.
C7_Witness ==
    /\ DeckBuilt
    /\ Len(buildReg.slides) = 3
    /\ \A k \in 1..3 : buildReg.slides[k].topic = <<"intro">>
    /\ buildReg.slides[1].created = "2024-01-01"
    /\ buildReg.slides[2].created = "2024-03-01"
    /\ buildReg.slides[3].created = "2024-03-01"
    /\ LET hs == SelectSeq(slidesQmd, IsH2)
       IN  [i \in 1..Len(hs) |-> SlideOfHeading(hs[i])] = <<2, 3, 1>>

\* the positions in the registry of the slides of recent.qmd, in order
RecentSlides ==
    LET hs == SelectSeq(recentQmd, IsH2)
    IN  [i \in 1..Len(hs) |->
            CHOOSE k \in 1..Len(buildReg.slides) : buildReg.slides[k].title = Tail(hs[i])]

\* r is the first n of the registry's slides in newest-first order (none when n <= 0)
FirstNewest(r, n) ==
    LET total == Len(buildReg.slides)
        shown == {r[i] : i \in 1..Len(r)}
    IN  /\ Len(r) = (IF n <= 0 THEN 0 ELSE IF n < total THEN n ELSE total)
        /\ Cardinality(shown) = Len(r)
        /\ \A i \in 1..(Len(r) - 1) : Precedes(r[i], r[i + 1])
        /\ \A a \in shown, b \in (1..total) \ shown : Precedes(a, b)

\* C8: for a registry with slides and any count, recent.qmd holds exactly the first
\* count slides of the registry in newest-first order, min(count, total) of them.
C8_RecentFirstCount ==
    (recentQmd # <<>> /\ buildReg.slides # <<>>) => FirstNewest(RecentSlides, recentCount)

\* C8 for a count >= 0: the same, for the builds run with a non-negative count.
C8_RecentFirstCountNonNegative ==
    (recentQmd # <<>> /\ buildReg.slides # <<>> /\ recentCount >= 0)
        => FirstNewest(RecentSlides, recentCount)

-----------------------------------------------------------------------------
(* Claims about _render_slide *)

IsBlank(line) == \A i \in 1..Len(line) : line[i] \in WhitespaceAtoms

IsDirective(line) == line \in {<<"::: {.caption}">>, <<"::: {.notes}">>}

\* C9: _render_slide emits no directive block with an empty body and no two
\* consecutive blank lines, and what it emits ends with one blank line, whatever
\* the values of figure, caption, description, content and notes are.
C9_NoEmptyBlocks ==
    rendered[1] = "lines" =>
        LET lines == rendered[2]
        IN  /\ \A i \in 1..(Len(lines) - 1) : IsDirective(lines[i]) => ~IsBlank(lines[i + 1])
            /\ \A i \in 1..(Len(lines) - 1) : ~(IsBlank(lines[i]) /\ IsBlank(lines[i + 1]))
            /\ lines # <<>> => IsBlank(lines[Len(lines)])

\* C9 without whitespace-only values: the same, for slides whose fields are empty
\* or hold something other than whitespace.
C9_NoEmptyBlocksUnlessWhitespace ==
    (/\ rendered[1] = "lines"
     /\ \A v \in {slide.caption, slide.description, slide.content, slide.notes} :
           v = <<>> \/ ~IsBlank(v))
        => LET lines == rendered[2]
           IN  /\ \A i \in 1..(Len(lines) - 1) : IsDirective(lines[i]) => ~IsBlank(lines[i + 1])
               /\ \A i \in 1..(Len(lines) - 1) : ~(IsBlank(lines[i]) /\ IsBlank(lines[i + 1]))
               /\ lines # <<>> => IsBlank(lines[Len(lines)])

-----------------------------------------------------------------------------
(* Claims about generate_comparison *)

\* C10: once generate_comparison has returned or raised, the temporary directory
\* .figure_history_temp does not exist.
C10_TempRemoved == cpc \in {"returned", "raised"} => ~tempDir.exists

\* C10 on the normal path: the directory is gone when the first invocation returns.
C10_TempRemovedOnReturn == (cpc = "returned" /\ runs = 0) => ~tempDir.exists

\* the first position at or after p of an atom of the page
FirstAt(text, p, atom) ==
    CHOOSE i \in p..Len(text) : text[i] = atom /\ \A j \in p..(i - 1) : text[j] # atom

\* the text between the first opening atom at or after p and the closing atom after it
FieldAfter(text, p, open, close) ==
    LET a == FirstAt(text, p, open)
        b == FirstAt(text, a, close)
    IN  SubSeq(text, a + 1, b - 1)

\* the positions of the page where a version card opens, in order
CardPositions(text) ==
    SelectSeq([i \in 1..Len(text) |-> i], LAMBDA i : text[i] = "<div class=\"version-card\">")

\* the version cards read back from the output file, in order
ArtifactCards ==
    LET text == artifact.text
        ps == CardPositions(text)
    IN  [k \in 1..Len(ps) |->
            [index |-> FieldAfter(text, ps[k], "<h3>Version ", "</h3>"),
             commit |-> FieldAfter(text, ps[k], "<span class=\"commit\">", "</span>"),
             date |-> FieldAfter(text, ps[k], "<span class=\"date\">", "</span>"),
             message |-> FieldAfter(text, ps[k], "<p class=\"message\">", "</p>"),
             data |-> FieldAfter(text, ps[k], "<img src=\"data:image/png;base64,",
                                 "\" alt=\"Version ")]]

\* the version count the page announces
ArtifactCount == FieldAfter(artifact.text, 1, "<p>", " versions found (newest first)</p>")

\* the card of the i-th revision of the list
CardOf(i) ==
    [index |-> Str(i), commit |-> SubSeq(history[i].commit, 1, 1), date |-> history[i].date,
     message |-> history[i].message, data |-> <<"b64(">> \o history[i].commit \o <<")">>]

\* the position in the revision list of the revision a card shows
RevisionOfCard(card) ==
    CHOOSE i \in 1..Len(history) : SubSeq(history[i].commit, 1, 1) = card.commit

\* the positions of the revisions whose content git show can print, in list order
Extractable == SelectSeq([i \in 1..Len(history) |-> i], LAMBDA i : history[i].blob)

\* C11 as stated: over exactly two revisions generate_comparison writes a page with
\* exactly two version cards in the order of the revision list; over one revision or
\* none it writes no page; a page is written only for two or more revisions, and its
\* cards follow the list order.
C11_TwoCardsInOrder ==
    /\ (cpc = "returned" /\ Len(history) = 2)
          => (artifact.written /\ ArtifactCards = <<CardOf(1), CardOf(2)>>)
    /\ Len(history) < 2 => ~artifact.written
    /\ artifact.written =>
          /\ Len(history) >= 2
          /\ \A k \in 1..(Len(ArtifactCards) - 1) :
                RevisionOfCard(ArtifactCards[k]) < RevisionOfCard(ArtifactCards[k + 1])

\* C11, amended: a page is written only for two or more revisions, and once
\* generate_comparison has written it (it has when it returns over two or more
\* revisions) the page holds one card for each revision whose content could be
\* extracted, and no other, in the order of the revision list, each with its 1-based
\* position in the list, and announces that number of versions.
C11_CardsOfExtracted ==
    /\ Len(history) < 2 => ~artifact.written
    /\ (cpc \in {"cleanup", "returned"} /\ Len(history) >= 2) => artifact.written
    /\ artifact.written =>
          /\ Len(history) >= 2
          /\ ArtifactCards = [k \in 1..Len(Extractable) |-> CardOf(Extractable[k])]
          /\ ArtifactCount = Str(Len(Extractable))

\* generate_comparison returned over exactly two revisions, both extracted, and its
\* page holds their two cards
C11_Witness ==
    /\ cpc = "returned"
    /\ Len(history) = 2
    /\ history[1].blob /\ history[2].blob
    /\ artifact.written
    /\ Len(ArtifactCards) = 2
    /\ ArtifactCards[1].commit = <<"1a1a1a1a">>
    /\ ArtifactCards[2].commit = <<"2b2b2b2b">>

=============================================================================
